---- MODULE Spec2Model ----
(***************************************************************************)
(* Model of src/main.py: the /search handler search_and_recommend and its  *)
(* streaming generator get_response, with the /vectorize ingestion that    *)
(* fills the plan collection.                                              *)
(*                                                                         *)
(* Text (request strings, replies of the generative model, stream          *)
(* fragments) is a sequence of one-character strings, so that json.loads   *)
(* is modelled by an actual parser and a fragment boundary can fall at any *)
(* character offset.                                                       *)
(***************************************************************************)
EXTENDS Integers, Sequences, FiniteSets, TLC

(***************************************************************************)
(* JSON values, as json.loads builds them.  Every value is a record of the *)
(* same shape: t is the Python type, s the characters of a str, n the      *)
(* value of an int, k the keys of a dict (in document order) and e the     *)
(* elements of a list or the values of a dict.                             *)
(***************************************************************************)
JNull == [t |-> "null", s |-> <<>>, n |-> 0, k |-> <<>>, e |-> <<>>]
JTrue == [t |-> "true", s |-> <<>>, n |-> 0, k |-> <<>>, e |-> <<>>]
JFalse == [t |-> "false", s |-> <<>>, n |-> 0, k |-> <<>>, e |-> <<>>]
JNum(n) == [t |-> "num", s |-> <<>>, n |-> n, k |-> <<>>, e |-> <<>>]
JStr(s) == [t |-> "str", s |-> s, n |-> 0, k |-> <<>>, e |-> <<>>]
JArr(e) == [t |-> "arr", s |-> <<>>, n |-> 0, k |-> <<>>, e |-> e]
JObj(k, e) == [t |-> "obj", s |-> <<>>, n |-> 0, k |-> k, e |-> e]

\* Python truthiness of a JSON value: bool(v), `if v`, `not v`.
Truthy(v) ==
    CASE v.t = "null" -> FALSE
      [] v.t = "true" -> TRUE
      [] v.t = "false" -> FALSE
      [] v.t = "num" -> v.n # 0
      [] v.t = "str" -> Len(v.s) > 0
      [] v.t = "arr" -> Len(v.e) > 0
      [] OTHER -> Len(v.k) > 0

\* dict.get(key, default) on a parsed object: a key that occurs twice in the
\* document keeps its last value; a key that is present with null gives None.
HasKey(obj, key) == \E i \in 1..Len(obj.k) : obj.k[i] = key

Get(obj, key, default) ==
    IF HasKey(obj, key)
    THEN LET last == CHOOSE i \in 1..Len(obj.k) :
                         /\ obj.k[i] = key
                         /\ \A j \in (i + 1)..Len(obj.k) : obj.k[j] # key
         IN obj.e[last]
    ELSE default

(***************************************************************************)
(* json.loads.  A parse result is [ok, v, i]: whether a value was read,    *)
(* the value, and the index of the first character after it.  The grammar  *)
(* is JSON without signs, fractions, exponents and \u escapes, none of     *)
(* which occurs in the texts the model draws.                              *)
(***************************************************************************)
Whitespace == {" ", "\n", "\t", "\r"}
Digits == <<"0", "1", "2", "3", "4", "5", "6", "7", "8", "9">>
IsDigit(c) == \E d \in 1..10 : Digits[d] = c
DigitVal(c) == (CHOOSE d \in 1..10 : Digits[d] = c) - 1

ParseFail == [ok |-> FALSE, v |-> JNull, i |-> 0]
ParseOk(v, i) == [ok |-> TRUE, v |-> v, i |-> i]

RECURSIVE SkipWs(_, _)
SkipWs(s, i) ==
    IF i <= Len(s) /\ s[i] \in Whitespace THEN SkipWs(s, i + 1) ELSE i

\* The literal `word` occurs in s at index i.
Matches(s, i, word) ==
    /\ i + Len(word) - 1 <= Len(s)
    /\ \A j \in 1..Len(word) : s[i + j - 1] = word[j]

\* The characters of a string, from the one after the opening quote.  A
\* backslash starts an escape; a raw control character is rejected.
RECURSIVE ScanString(_, _, _)
ScanString(s, i, acc) ==
    IF i > Len(s) THEN ParseFail
    ELSE IF s[i] = "\"" THEN ParseOk(JStr(acc), i + 1)
    ELSE IF s[i] = "\\" THEN
        IF i + 1 > Len(s) THEN ParseFail
        ELSE IF s[i + 1] = "n" THEN ScanString(s, i + 2, Append(acc, "\n"))
        ELSE IF s[i + 1] = "t" THEN ScanString(s, i + 2, Append(acc, "\t"))
        ELSE IF s[i + 1] = "r" THEN ScanString(s, i + 2, Append(acc, "\r"))
        ELSE IF s[i + 1] \in {"\"", "\\", "/"}
             THEN ScanString(s, i + 2, Append(acc, s[i + 1]))
        ELSE ParseFail
    ELSE IF s[i] \in {"\n", "\t", "\r"} THEN ParseFail
    ELSE ScanString(s, i + 1, Append(acc, s[i]))

\* An integer: 0, or a digit 1-9 followed by digits.
RECURSIVE ScanDigits(_, _, _)
ScanDigits(s, i, acc) ==
    IF i <= Len(s) /\ IsDigit(s[i])
    THEN ScanDigits(s, i + 1, acc * 10 + DigitVal(s[i]))
    ELSE ParseOk(JNum(acc), i)

ParseNumber(s, i) ==
    IF s[i] = "0" THEN ParseOk(JNum(0), i + 1) ELSE ScanDigits(s, i, 0)

RECURSIVE ParseValue(_, _)
RECURSIVE ParseElements(_, _, _)
RECURSIVE ParseMembers(_, _, _, _)

\* The elements of a list, from the first element; acc holds those read.
ParseElements(s, i, acc) ==
    LET r == ParseValue(s, i) IN
    IF ~r.ok THEN ParseFail
    ELSE LET j == SkipWs(s, r.i) IN
         IF j > Len(s) THEN ParseFail
         ELSE IF s[j] = "]" THEN ParseOk(JArr(Append(acc, r.v)), j + 1)
         ELSE IF s[j] = "," THEN ParseElements(s, SkipWs(s, j + 1), Append(acc, r.v))
         ELSE ParseFail

\* The members of a dict, from the quote of the first key.
ParseMembers(s, i, keys, vals) ==
    IF i > Len(s) \/ s[i] # "\"" THEN ParseFail
    ELSE LET key == ScanString(s, i + 1, <<>>) IN
         IF ~key.ok THEN ParseFail
         ELSE LET c == SkipWs(s, key.i) IN
              IF c > Len(s) \/ s[c] # ":" THEN ParseFail
              ELSE LET r == ParseValue(s, SkipWs(s, c + 1)) IN
                   IF ~r.ok THEN ParseFail
                   ELSE LET j == SkipWs(s, r.i) IN
                        IF j > Len(s) THEN ParseFail
                        ELSE IF s[j] = "}"
                             THEN ParseOk(JObj(Append(keys, key.v.s), Append(vals, r.v)), j + 1)
                        ELSE IF s[j] = ","
                             THEN ParseMembers(s, SkipWs(s, j + 1),
                                               Append(keys, key.v.s), Append(vals, r.v))
                        ELSE ParseFail

ParseValue(s, i) ==
    IF i > Len(s) THEN ParseFail
    ELSE IF s[i] = "\"" THEN ScanString(s, i + 1, <<>>)
    ELSE IF s[i] = "{" THEN
        LET j == SkipWs(s, i + 1) IN
        IF j <= Len(s) /\ s[j] = "}" THEN ParseOk(JObj(<<>>, <<>>), j + 1)
        ELSE ParseMembers(s, j, <<>>, <<>>)
    ELSE IF s[i] = "[" THEN
        LET j == SkipWs(s, i + 1) IN
        IF j <= Len(s) /\ s[j] = "]" THEN ParseOk(JArr(<<>>), j + 1)
        ELSE ParseElements(s, j, <<>>)
    ELSE IF Matches(s, i, <<"n", "u", "l", "l">>) THEN ParseOk(JNull, i + 4)
    ELSE IF Matches(s, i, <<"t", "r", "u", "e">>) THEN ParseOk(JTrue, i + 4)
    ELSE IF Matches(s, i, <<"f", "a", "l", "s", "e">>) THEN ParseOk(JFalse, i + 5)
    ELSE IF IsDigit(s[i]) THEN ParseNumber(s, i)
    ELSE ParseFail

\* json.loads(s): one value with whitespace around it and nothing after it;
\* ok = FALSE is json.JSONDecodeError.
Loads(s) ==
    LET r == ParseValue(s, SkipWs(s, 1)) IN
    IF r.ok /\ SkipWs(s, r.i) = Len(s) + 1 THEN r ELSE ParseFail

(***************************************************************************)
(* Words of the program: dictionary keys and eligibility tags.             *)
(***************************************************************************)
K_item == <<"i", "t", "e", "m">>
K_message == <<"m", "e", "s", "s", "a", "g", "e">>
K_status == <<"s", "t", "a", "t", "u", "s">>
K_link == <<"l", "i", "n", "k">>
K_userProfile == <<"u", "s", "e", "r", "P", "r", "o", "f", "i", "l", "e">>
K_eligibilityList ==
    <<"e", "l", "i", "g", "i", "b", "i", "l", "i", "t", "y", "L", "i", "s", "t">>
K_birthdate == <<"b", "i", "r", "t", "h", "d", "a", "t", "e">>
K_planName == <<"p", "l", "a", "n", "N", "a", "m", "e">>

ALL == <<"A", "L", "L">>
KID == <<"K", "I", "D">>
BOY == <<"B", "O", "Y">>
YOUTH == <<"Y", "O", "U", "T", "H">>
OLD == <<"O", "L", "D">>

\* The two fallback texts of get_response: the Korean sentences of lines 401
\* and 404, named here by what they say.
ESCALATE_TEXT == "connecting you to the customer centre"
NOT_UNDERSTOOD_TEXT == "could not understand the question"

(***************************************************************************)
(* Bounds of the model.                                                    *)
(***************************************************************************)
\* ambiguousCount of a request ranges over 0..MaxAmbiguous.
MaxAmbiguous == 4
\* The provider delivers a stream in at most MaxChunks chunks.
MaxChunks == 3
\* The number of plans ingested into the collection.
NumPlans == 14
\* Birthdates range over the years today.year - MaxAge .. today.year.
MaxAge == 70

(***************************************************************************)
(* /vectorize: the plan catalog and the points stored for it.              *)
(***************************************************************************)
RECURSIVE Decimal(_)
Decimal(n) ==
    IF n < 10 THEN <<Digits[n + 1]>> ELSE Append(Decimal(n \div 10), Digits[(n % 10) + 1])

\* The plans posted to /vectorize: one KID, one YOUTH and one OLD plan, the
\* rest open to ALL.
PlanEligibility(i) ==
    IF i = 1 THEN KID ELSE IF i = 2 THEN YOUTH ELSE IF i = 3 THEN OLD ELSE ALL

Plan(i) ==
    [planId |-> i,
     name |-> <<"p">> \o Decimal(i),
     eligibility |-> PlanEligibility(i),
     mobileType |-> "5G",
     isOnline |-> 0,
     planUrl |-> <<"u">> \o Decimal(i)]

Plans == [i \in 1..NumPlans |-> Plan(i)]

\* plan.dict(include={planId, name, eligibility, mobileType, isOnline}): the
\* payload stored with a point.  planUrl is not among the included fields.
PlanPayload(plan) ==
    [planId |-> plan.planId,
     name |-> plan.name,
     eligibility |-> plan.eligibility,
     mobileType |-> plan.mobileType,
     isOnline |-> plan.isOnline]

\* The points upserted by vectorize_plans, kept in the order in which the
\* similarity search ranks them.
VectorizePlans(plans) == [i \in 1..Len(plans) |-> PlanPayload(plans[i])]

\* plan_collection once the plans have been ingested.  No request writes it.
collection == VectorizePlans(Plans)

\* limit=10 of qdrant.search.
limit == 10

\* The list of str elements of a JSON list.
StrElements(list) == {list.e[i].s : i \in {j \in 1..Len(list.e) : list.e[j].t = "str"}}

\* Search without the limit.
SearchWithoutLimit(points, any) ==
    LET Match(p) == p.eligibility \in StrElements(any)
    IN SelectSeq(points, Match)

\* qdrant.search with the MatchAny filter on "eligibility": the first `limit`
\* points, in ranking order, whose tag is among `any`.
Search(points, any) ==
    LET Match(p) == p.eligibility \in StrElements(any)
        found == SelectSeq(points, Match)
    IN IF Len(found) <= limit THEN found ELSE SubSeq(found, 1, limit)

(***************************************************************************)
(* The seed eligibility list, lines 147-161.                               *)
(***************************************************************************)
RECURSIVE ToNumber(_, _, _)
ToNumber(s, i, j) == IF i > j THEN 0 ELSE ToNumber(s, i, j - 1) * 10 + DigitVal(s[j])

\* dateutil.parser.parse on the strings the model draws: an ISO date
\* YYYY-MM-DD gives its year, month and day; anything else raises ParserError
\* (ok = FALSE).
ParseDate(s) ==
    IF /\ Len(s) = 10
       /\ s[5] = "-" /\ s[8] = "-"
       /\ \A i \in {1, 2, 3, 4, 6, 7, 9, 10} : IsDigit(s[i])
       /\ ToNumber(s, 6, 7) \in 1..12
       /\ ToNumber(s, 9, 10) \in 1..31
    THEN [ok |-> TRUE, year |-> ToNumber(s, 1, 4), month |-> ToNumber(s, 6, 7),
          day |-> ToNumber(s, 9, 10)]
    ELSE [ok |-> FALSE, year |-> 0, month |-> 0, day |-> 0]

\* Age without the correction for a birthday that is still to come this year.
AgeByYearOnly(now, birthday) == now.year - birthday.year

\* today.year - birthday.year - ((today.month, today.day) < (birthday.month, birthday.day))
Age(now, birthday) ==
    now.year - birthday.year
    - (IF \/ now.month < birthday.month
          \/ (now.month = birthday.month /\ now.day < birthday.day)
       THEN 1 ELSE 0)

\* The if/elif chain of lines 154-161 on eligibilityList = ["ALL"].
AgeBracket(age) ==
    IF age <= 12 THEN <<JStr(KID)>>
    ELSE IF age <= 18 THEN <<JStr(BOY)>>
    ELSE IF age <= 34 THEN <<JStr(YOUTH)>>
    ELSE IF age >= 65 THEN <<JStr(OLD)>>
    ELSE <<>>

\* Lines 147-161: raised names the exception that leaves the handler ("" when
\* none does).
SeedEligibility(profile, now) ==
    IF profile.t # "obj"
    THEN [raised |-> "AttributeError", list |-> JArr(<<JStr(ALL)>>)]
    ELSE LET birthday_str == Get(profile, K_birthdate, JNull) IN
         IF ~Truthy(birthday_str)
         THEN [raised |-> "", list |-> JArr(<<JStr(ALL)>>)]
         ELSE LET birthday == ParseDate(birthday_str.s) IN
              IF ~birthday.ok
              THEN [raised |-> "ParserError", list |-> JArr(<<JStr(ALL)>>)]
              ELSE [raised |-> "",
                    list |-> JArr(<<JStr(ALL)>> \o AgeBracket(Age(now, birthday)))]

(***************************************************************************)
(* Inputs: request bodies, replies of the profile-correction call and      *)
(* texts streamed by the generative model.                                 *)
(***************************************************************************)
Quoted(s) == <<"\"">> \o s \o <<"\"">>
Member(key, text) == Quoted(key) \o <<":">> \o text
Braces(text) == <<"{">> \o text \o <<"}">>
Brackets(text) == <<"[">> \o text \o <<"]">>
Comma == <<",">>
NullText == <<"n", "u", "l", "l">>
TrueText == <<"t", "r", "u", "e">>
FalseText == <<"f", "a", "l", "s", "e">>

\* body.get("query"): absent, empty, or a question.
Queries == {JNull, JStr(<<>>), JStr(<<"q">>)}

\* body.get("userProfile"): absent or null, an empty object, or a profile
\* with or without a birthdate.
ProfileWith(birthdate) ==
    JObj(<<K_birthdate, K_planName>>, <<JStr(birthdate), JStr(<<"a">>)>>)
ProfileNoBirthdate == JObj(<<K_planName>>, <<JStr(<<"a">>)>>)
Born2015 == <<"2", "0", "1", "5", "-", "0", "1", "-", "0", "1">>
Born1990 == <<"1", "9", "9", "0", "-", "0", "1", "-", "0", "1">>
Born1950 == <<"1", "9", "5", "0", "-", "0", "1", "-", "0", "1">>
NotADate == <<"x">>
Profiles ==
    {JNull, JObj(<<>>, <<>>), ProfileNoBirthdate, ProfileWith(Born2015),
     ProfileWith(Born1990), ProfileWith(Born1950), ProfileWith(NotADate)}

\* Birthdate strings as a client writes them, YYYY-MM-DD: for every year
\* from today.year - MaxAge to today.year, the days around today's date (the
\* month before, this month and the month after; the day before, this day
\* and the day after).
TwoDigits(n) == <<Digits[(n \div 10) + 1], Digits[(n % 10) + 1]>>
IsoDate(year, month, day) ==
    Decimal(year) \o <<"-">> \o TwoDigits(month) \o <<"-">> \o TwoDigits(day)
Birthdates(now) ==
    {IsoDate(now.year - a, m, d) :
        a \in 0..MaxAge,
        m \in {mm \in 1..12 : mm - now.month \in -1..1},
        d \in {dd \in 1..28 : dd - now.day \in -1..1}}

\* body.get("history"): a list of utterances.
Histories == {JArr(<<>>)}

\* datetime.today().
Todays == {[year |-> 2026, month |-> 11, day |-> 4]}

\* response.choices[0].message.content of the profile-correction call.
CorrectedProfileText == Braces(Member(K_planName, Quoted(<<"b">>)))
ReplyFull ==
    Braces(Member(K_userProfile, CorrectedProfileText) \o Comma
           \o Member(K_eligibilityList, Brackets(Quoted(ALL) \o Comma \o Quoted(OLD))))
ReplyWithoutAll == Braces(Member(K_eligibilityList, Brackets(Quoted(OLD))))
ReplyProfileOnly == Braces(Member(K_userProfile, CorrectedProfileText))
ReplyRefusal ==
    Braces(Member(K_status, FalseText) \o Comma \o Member(K_item, Brackets(<<>>))
           \o Comma \o Member(K_message, Quoted(<<"m">>)))
ReplyOnlyBoy == Braces(Member(K_eligibilityList, Brackets(Quoted(BOY))))
ReplyNotJson == <<"o", "k">>
ReplyArray == Brackets(<<>>)
ReplyString == Quoted(<<"s">>)
ReplyNumber == <<"7">>
ReplyNull == NullText
Replies ==
    {ReplyFull, ReplyWithoutAll, ReplyProfileOnly, ReplyRefusal, ReplyOnlyBoy,
     ReplyNotJson, ReplyArray, ReplyString, ReplyNumber, ReplyNull}

\* The whole text a streaming call delivers, before it is cut into chunks.
LinkItem(url) == Brackets(Braces(Member(K_link, Quoted(url))))
PayloadRecommend ==
    Braces(Member(K_item, LinkItem(<<"u", "4">>)) \o Comma
           \o Member(K_message, Quoted(<<"a", "\\", "n", "b">>)))
PayloadUnlistedLink ==
    Braces(Member(K_item, LinkItem(<<"z", "z">>)) \o Comma
           \o Member(K_message, Quoted(<<"h", "i">>)))
PayloadNullMessage ==
    Braces(Member(K_item, Brackets(<<>>)) \o Comma \o Member(K_message, NullText))
    \o <<"\n">>
PayloadNullItem ==
    Braces(Member(K_item, NullText) \o Comma \o Member(K_message, Quoted(<<"m">>)))
PayloadStatusTrueNoItem ==
    Braces(Member(K_status, TrueText) \o Comma \o Member(K_item, Brackets(<<>>)))
PayloadStatusFalseItem ==
    Braces(Member(K_status, FalseText) \o Comma \o Member(K_item, LinkItem(<<"u", "4">>)))
PayloadRefusal ==
    Braces(Member(K_status, FalseText) \o Comma \o Member(K_item, Brackets(<<>>))
           \o Comma \o Member(K_message, Quoted(<<"n", "o">>)))
    \o <<"\n">>
PayloadArray == Brackets(<<"1">>)
PayloadNumber == <<"1", "2">>
PayloadTruncated == <<"{">> \o Member(K_item, <<"[">>)
Payloads ==
    {PayloadRecommend, PayloadUnlistedLink, PayloadNullMessage, PayloadNullItem,
     PayloadStatusTrueNoItem, PayloadStatusFalseItem, PayloadRefusal, PayloadArray,
     PayloadNumber, PayloadTruncated}

\* Two requests served at the same time.  Each has its own body (a child
\* with ambiguousCount 0, an elder with ambiguousCount MaxAmbiguous), the
\* replies of its own profile-correction calls and its own stream: a short
\* answer or an array, delivered whole or cut in two at any character.
Requests == {1, 2}
PairProfile(r) == IF r = 1 THEN ProfileWith(Born2015) ELSE ProfileWith(Born1950)
PairAmbiguous(r) == IF r = 1 THEN 0 ELSE MaxAmbiguous
PairReplies == {ReplyNotJson, ReplyProfileOnly}
PayloadShortMessage == Braces(Member(K_message, Quoted(<<"a", "b">>)))
PairPayloads == {PayloadShortMessage, PayloadArray}
CutAt(text, n) == <<SubSeq(text, 1, n), SubSeq(text, n + 1, Len(text))>>
PairStreams ==
    {<<text>> : text \in PairPayloads}
    \cup UNION {{CutAt(text, n) : n \in 1..(Len(text) - 1)} : text \in PairPayloads}

\* json.loads on the texts the model can hold in a buffer: the parse of every
\* prefix of a payload is computed once and looked up afterwards.
Prefixes ==
    UNION {{SubSeq(text, 1, n) : n \in 0..Len(text)} : text \in Payloads \cup PairPayloads}
LoadsOfPrefix == [text \in Prefixes |-> Loads(text)]
JsonLoads(s) == IF s \in Prefixes THEN LoadsOfPrefix[s] ELSE Loads(s)

(***************************************************************************)
(* update_profile_with_gpt, lines 215-220.                                 *)
(***************************************************************************)
\* UpdateProfileResult with a missing eligibilityList falling back to the
\* argument instead of ['ALL'].
UpdateProfileResultSeedDefault(content, user_profile_raw, eligibilityList) ==
    LET parsed == Loads(content) IN
    IF ~parsed.ok
    THEN [raised |-> "", userProfile |-> user_profile_raw, eligibilityList |-> eligibilityList]
    ELSE IF parsed.v.t # "obj"
    THEN [raised |-> "AttributeError", userProfile |-> user_profile_raw,
          eligibilityList |-> eligibilityList]
    ELSE [raised |-> "",
          userProfile |-> Get(parsed.v, K_userProfile, user_profile_raw),
          eligibilityList |-> Get(parsed.v, K_eligibilityList, eligibilityList)]

\* json.loads(content) and the two parsed.get calls.  A reply that is not
\* JSON is caught (json.JSONDecodeError); a JSON value that is not a dict has
\* no .get, and the AttributeError is not caught.
UpdateProfileResult(content, user_profile_raw, eligibilityList) ==
    LET parsed == Loads(content) IN
    IF ~parsed.ok
    THEN [raised |-> "", userProfile |-> user_profile_raw, eligibilityList |-> eligibilityList]
    ELSE IF parsed.v.t # "obj"
    THEN [raised |-> "AttributeError", userProfile |-> user_profile_raw,
          eligibilityList |-> eligibilityList]
    ELSE [raised |-> "",
          userProfile |-> Get(parsed.v, K_userProfile, user_profile_raw),
          eligibilityList |-> Get(parsed.v, K_eligibilityList, JArr(<<JStr(ALL)>>))]

(***************************************************************************)
(* get_response: what it yields.  An output unit is one yielded value.     *)
(***************************************************************************)
HeaderUnit(status, item) == [u |-> "header", status |-> status, item |-> item, c |-> ""]
CharUnit(c) == [u |-> "char", status |-> FALSE, item |-> JNull, c |-> c]
ValueUnit(v) == [u |-> "value", status |-> FALSE, item |-> v, c |-> ""]
TextUnit(text) == [u |-> "text", status |-> FALSE, item |-> JNull, c |-> text]

\* HeaderLine with the status taken from the status field of the parsed object.
HeaderLineStatusOfModel(parsed) ==
    HeaderUnit(Truthy(Get(parsed, K_status, JNull)), Get(parsed, K_item, JArr(<<>>)))

\* Line 387: json.dumps({"status": bool(parsed.get("item")),
\*                       "item": parsed.get("item", [])}) + "\n"
HeaderLine(parsed) ==
    HeaderUnit(Truthy(Get(parsed, K_item, JNull)), Get(parsed, K_item, JArr(<<>>)))

\* Line 388: `for ch in parsed.get("message", "")` raises TypeError unless the
\* value is a str, a list or a dict.
Iterable(v) == v.t \in {"str", "arr", "obj"}

\* What the loop of lines 388-390 yields: the characters of a str (the
\* elements of a list, the keys of a dict).
MessageUnits(parsed) ==
    LET message == Get(parsed, K_message, JStr(<<>>)) IN
    CASE message.t = "str" -> [i \in 1..Len(message.s) |-> CharUnit(message.s[i])]
      [] message.t = "arr" -> [i \in 1..Len(message.e) |-> ValueUnit(message.e[i])]
      [] message.t = "obj" -> [i \in 1..Len(message.k) |-> ValueUnit(JStr(message.k[i]))]
      [] OTHER -> <<>>

\* ResponseUnits with the message ahead of the header.
ResponseUnitsMessageFirst(parsed) == MessageUnits(parsed) \o <<HeaderLine(parsed)>>

\* Lines 387-389: everything yielded for a parsed object, in order.
ResponseUnits(parsed) == <<HeaderLine(parsed)>> \o MessageUnits(parsed)

\* FallbackUnits with the header yielded in the first branch only.
FallbackUnitsHeaderInOneBranch(ambiguous_count) ==
    IF ambiguous_count > 3
    THEN <<HeaderUnit(FALSE, JArr(<<>>)), TextUnit(ESCALATE_TEXT)>>
    ELSE <<TextUnit(NOT_UNDERSTOOD_TEXT)>>

\* Lines 398-404: the fallback.
FallbackUnits(ambiguous_count) ==
    IF ambiguous_count > 3
    THEN <<HeaderUnit(FALSE, JArr(<<>>)), TextUnit(ESCALATE_TEXT)>>
    ELSE <<HeaderUnit(FALSE, JArr(<<>>)), TextUnit(NOT_UNDERSTOOD_TEXT)>>

(***************************************************************************)
(* State.                                                                  *)
(*   pc                  where the request is: in search_and_recommend     *)
(*                       ("start", "update", "parse", "echo", "embed",     *)
(*                       "search"), in get_response ("respond", "reading", *)
(*                       "emitting", "after_loop"), finished ("done") or   *)
(*                       left by an exception ("raised")                   *)
(*   raised              the exception that left the request, "" if none   *)
(*   response            what the handler returned: "none" so far,         *)
(*                       "required" for the JSONResponse of line 164,      *)
(*                       "streaming" for the StreamingResponse of line 406 *)
(*   calls               the calls made to the collaborators, in order     *)
(*   query, user_profile_raw, ambiguous_count, history, today,             *)
(*   eligibilityList, content, new_user_profile, new_eligibilityList,      *)
(*   similar             the locals of search_and_recommend and of         *)
(*                       update_profile_with_gpt                           *)
(*   stream              the text the streaming call has yet to deliver    *)
(*   chunks_left         how many more chunks the provider may deliver     *)
(*   chunk, buffer, first_line_sent                                        *)
(*                       the locals of get_response                        *)
(*   pending             what the loop of line 388 has yet to yield        *)
(*   output              the units yielded so far                          *)
(*   ever_parsed         history: json.loads(buffer) has returned a dict   *)
(*   stream_error        the except clause of line 395 has caught an       *)
(*                       exception raised by the iteration of the stream   *)
(*   frames              when two requests are served at the same time:    *)
(*                       the locals of each, by request                    *)
(***************************************************************************)
VARIABLES pc, raised, response, calls,
          query, user_profile_raw, ambiguous_count, history, today,
          eligibilityList, content, new_user_profile, new_eligibilityList, similar,
          stream, chunks_left, chunk, buffer, first_line_sent, pending, output,
          ever_parsed, stream_error, frames

requestVars == <<query, user_profile_raw, ambiguous_count, history, today, eligibilityList>>
correctionVars == <<content, new_user_profile, new_eligibilityList>>
streamVars == <<stream, chunks_left, chunk, buffer, first_line_sent, pending, output,
                ever_parsed, stream_error>>
locals == <<pc, raised, response, calls, requestVars, correctionVars, similar,
            streamVars>>
vars == <<locals, frames>>

\* No generator has started.
StreamIdle ==
    /\ stream = <<>>
    /\ chunks_left = 0
    /\ chunk = <<>>
    /\ buffer = <<>>
    /\ first_line_sent = FALSE
    /\ pending = <<>>
    /\ output = <<>>
    /\ ever_parsed = FALSE
    /\ stream_error = FALSE

\* The service is up and a request arrives.
Init ==
    /\ pc = "start"
    /\ raised = ""
    /\ response = "none"
    /\ calls = <<>>
    /\ query = JNull
    /\ user_profile_raw = JNull
    /\ ambiguous_count = 0
    /\ history = JArr(<<>>)
    /\ today \in Todays
    /\ eligibilityList = JArr(<<>>)
    /\ content = <<>>
    /\ new_user_profile = JNull
    /\ new_eligibilityList = JArr(<<>>)
    /\ similar = <<>>
    /\ StreamIdle
    /\ frames = <<>>

(***************************************************************************)
(* search_and_recommend.                                                   *)
(***************************************************************************)
\* Lines 139-164: the body is read, the seed eligibility list is computed
\* from the birthdate, and only then are query and userProfile checked.
ReceiveBody(q, p, a, h) ==
    /\ pc = "start"
    /\ LET seed == SeedEligibility(p, today) IN
         /\ query' = q
         /\ user_profile_raw' = p
         /\ ambiguous_count' = a
         /\ history' = h
         /\ eligibilityList' = seed.list
         /\ IF seed.raised # ""
            THEN /\ pc' = "raised"
                 /\ raised' = seed.raised
                 /\ response' = response
            ELSE IF ~Truthy(q) \/ ~Truthy(p)
            THEN /\ pc' = "done"
                 /\ raised' = raised
                 /\ response' = "required"
            ELSE /\ pc' = "update"
                 /\ raised' = raised
                 /\ response' = response
    /\ UNCHANGED <<frames, calls, today, correctionVars, similar, streamVars>>

\* A request with any of the bodies the model draws.
Receive ==
    \E q \in Queries, p \in Profiles, a \in 0..MaxAmbiguous, h \in Histories :
        ReceiveBody(q, p, a, h)

\* A request whose userProfile carries any of the birthdates around today's
\* date, MaxAge years back.
ReceiveBorn ==
    \E born \in Birthdates(today), a \in 0..MaxAmbiguous :
        ReceiveBody(JStr(<<"q">>), ProfileWith(born), a, JArr(<<>>))

\* Lines 206-215 of the call of line 222: the non-streaming completion.
UpdateProfileCall ==
    /\ pc = "update"
    /\ \E reply \in Replies : content' = reply
    /\ calls' = Append(calls, "chat")
    /\ pc' = "parse"
    /\ UNCHANGED <<frames, raised, response, requestVars, new_user_profile,
                   new_eligibilityList, similar, streamVars>>

\* Lines 216-224: the reply is parsed and the result bound to
\* new_user_profile, new_eligibilityList.
UpdateProfileParse ==
    /\ pc = "parse"
    /\ LET result == UpdateProfileResult(content, user_profile_raw, eligibilityList) IN
       IF result.raised # ""
       THEN /\ pc' = "raised"
            /\ raised' = result.raised
            /\ UNCHANGED <<new_user_profile, new_eligibilityList>>
       ELSE /\ pc' = "echo"
            /\ raised' = raised
            /\ new_user_profile' = result.userProfile
            /\ new_eligibilityList' = result.eligibilityList
    /\ UNCHANGED <<frames, response, calls, requestVars, content, similar, streamVars>>

\* Lines 226-228: update_profile_with_gpt is called a second time, with the
\* same arguments, and its result is printed and dropped.
UpdateProfileEcho ==
    /\ pc = "echo"
    /\ calls' = Append(calls, "chat")
    /\ \E reply \in Replies :
         LET result == UpdateProfileResult(reply, user_profile_raw, eligibilityList) IN
         IF result.raised # ""
         THEN /\ pc' = "raised"
              /\ raised' = result.raised
         ELSE /\ pc' = "embed"
              /\ raised' = raised
    /\ UNCHANGED <<frames, response, requestVars, correctionVars, similar, streamVars>>

\* Lines 233-236: the query is embedded.
Embed ==
    /\ pc = "embed"
    /\ calls' = Append(calls, "embed")
    /\ pc' = "search"
    /\ UNCHANGED <<frames, raised, response, requestVars, correctionVars, similar,
                   streamVars>>

\* Lines 238-254 and 406-408: the filtered search; the prompt is built and the
\* StreamingResponse over get_response() is returned.  MatchAny takes a list.
SearchPlans ==
    /\ pc = "search"
    /\ calls' = Append(calls, "search")
    /\ IF new_eligibilityList.t # "arr"
       THEN /\ pc' = "raised"
            /\ raised' = "ValidationError"
            /\ UNCHANGED <<response, similar>>
       ELSE /\ similar' = Search(collection, new_eligibilityList)
            /\ response' = "streaming"
            /\ pc' = "respond"
            /\ raised' = raised
    /\ UNCHANGED <<frames, requestVars, correctionVars, streamVars>>

\* Lines 257-364: what the prompt is rendered from.
Prompt ==
    [plans_json |-> similar,
     eligibility |-> new_eligibilityList,
     telecomProvider |-> Get(new_user_profile, <<"t">>, JNull),
     planName |-> Get(new_user_profile, K_planName, JNull),
     ambiguous_count |-> ambiguous_count,
     query |-> query]

(***************************************************************************)
(* get_response.                                                           *)
(***************************************************************************)
\* Lines 367-378: the streaming completion is created; the model will
\* deliver some text.
StartStream ==
    /\ pc = "respond"
    /\ calls' = Append(calls, "chat_stream")
    /\ \E text \in Payloads : stream' = text
    /\ chunks_left' = MaxChunks
    /\ buffer' = <<>>
    /\ first_line_sent' = FALSE
    /\ pc' = "reading"
    /\ UNCHANGED <<frames, raised, response, requestVars, correctionVars, similar,
                   chunk, pending, output, ever_parsed, stream_error>>

\* Line 367: the call raises; it is made outside the try of line 380.
StartStreamFails ==
    /\ pc = "respond"
    /\ calls' = Append(calls, "chat_stream")
    /\ pc' = "raised"
    /\ raised' = "APIError"
    /\ UNCHANGED <<frames, response, requestVars, correctionVars, similar, streamVars>>

\* Lines 381-387 and 393-394: one chunk.  An empty delta is skipped; else the
\* buffer grows and is parsed.  A buffer that does not parse, or parses to a
\* value without .get, raises inside the inner try: continue.  For a dict the
\* header is yielded; a message that cannot be iterated raises TypeError
\* inside the same try: continue, with first_line_sent still False.
ReadChunk ==
    /\ pc = "reading"
    /\ stream # <<>>
    /\ chunks_left > 0
    /\ \E n \in 0..Len(stream) :
         /\ chunks_left = 1 => n = Len(stream)
         /\ chunk' = SubSeq(stream, 1, n)
         /\ stream' = SubSeq(stream, n + 1, Len(stream))
         /\ buffer' = buffer \o SubSeq(stream, 1, n)
    /\ chunks_left' = chunks_left - 1
    /\ LET parsed == JsonLoads(buffer') IN
       IF chunk' = <<>> \/ ~parsed.ok \/ parsed.v.t # "obj"
       THEN UNCHANGED <<pc, pending, output, ever_parsed>>
       ELSE /\ ever_parsed' = TRUE
            /\ output' = Append(output, Head(ResponseUnits(parsed.v)))
            /\ IF Iterable(Get(parsed.v, K_message, JStr(<<>>)))
               THEN /\ pending' = Tail(ResponseUnits(parsed.v))
                    /\ pc' = "emitting"
               ELSE UNCHANGED <<pc, pending>>
    /\ UNCHANGED <<frames, raised, response, calls, requestVars, correctionVars,
                   similar, first_line_sent, stream_error>>

\* Lines 388-390: one unit of the message.
EmitChar ==
    /\ pc = "emitting"
    /\ pending # <<>>
    /\ output' = Append(output, Head(pending))
    /\ pending' = Tail(pending)
    /\ UNCHANGED <<frames, pc, raised, response, calls, requestVars, correctionVars,
                   similar, stream, chunks_left, chunk, buffer, first_line_sent,
                   ever_parsed, stream_error>>

\* Lines 391-392: the message is out; first_line_sent = True; break.
MessageDone ==
    /\ pc = "emitting"
    /\ pending = <<>>
    /\ first_line_sent' = TRUE
    /\ pc' = "after_loop"
    /\ UNCHANGED <<frames, raised, response, calls, requestVars, correctionVars,
                   similar, stream, chunks_left, chunk, buffer, pending, output,
                   ever_parsed, stream_error>>

\* Line 381: the stream is exhausted.
StreamEnd ==
    /\ pc = "reading"
    /\ stream = <<>>
    /\ pc' = "after_loop"
    /\ UNCHANGED <<frames, raised, response, calls, requestVars, correctionVars,
                   similar, streamVars>>

\* StreamError with the exception leaving get_response.
StreamErrorPropagates ==
    /\ pc = "reading"
    /\ pc' = "raised"
    /\ raised' = "APIError"
    /\ stream_error' = TRUE
    /\ UNCHANGED <<frames, response, calls, requestVars, correctionVars, similar,
                   stream, chunks_left, chunk, buffer, first_line_sent, pending,
                   output, ever_parsed>>

\* Lines 395-396: reading the stream raises; the exception is caught and
\* printed.
StreamError ==
    /\ pc = "reading"
    /\ pc' = "after_loop"
    /\ stream_error' = TRUE
    /\ UNCHANGED <<frames, raised, response, calls, requestVars, correctionVars,
                   similar, stream, chunks_left, chunk, buffer, first_line_sent,
                   pending, output, ever_parsed>>

\* Lines 398-404: the fallback when no line was sent, and the generator ends.
Finish ==
    /\ pc = "after_loop"
    /\ output' = IF first_line_sent THEN output
                 ELSE output \o FallbackUnits(ambiguous_count)
    /\ pc' = "done"
    /\ UNCHANGED <<frames, raised, response, calls, requestVars, correctionVars,
                   similar, stream, chunks_left, chunk, buffer, first_line_sent, pending,
                   ever_parsed, stream_error>>

(***************************************************************************)
(* Specifications.                                                         *)
(***************************************************************************)
\* The handler, up to the start of the streaming call.
Next ==
    \/ Receive
    \/ UpdateProfileCall
    \/ UpdateProfileParse
    \/ UpdateProfileEcho
    \/ Embed
    \/ SearchPlans
    \/ StartStream
    \/ StartStreamFails

Spec == Init /\ [][Next]_vars

\* Lines 139-164 alone, over the birthdates around today's date.
SeedNext == ReceiveBorn

SeedSpec == Init /\ [][SeedNext]_vars

\* get_response, from a state in which the handler has returned the
\* StreamingResponse: the request of a child, with any ambiguousCount, whose
\* profile correction returned text that is not JSON (the seed list ALL, KID
\* is kept) or a full correction (ALL, OLD).
StreamInit ==
    /\ pc = "respond"
    /\ raised = ""
    /\ response = "streaming"
    /\ calls = <<"chat", "chat", "embed", "search">>
    /\ query = JStr(<<"q">>)
    /\ user_profile_raw = ProfileWith(Born2015)
    /\ ambiguous_count \in 0..MaxAmbiguous
    /\ history = JArr(<<>>)
    /\ today \in Todays
    /\ eligibilityList = SeedEligibility(user_profile_raw, today).list
    /\ content \in {ReplyNotJson, ReplyFull}
    /\ new_user_profile =
           UpdateProfileResult(content, user_profile_raw, eligibilityList).userProfile
    /\ new_eligibilityList =
           UpdateProfileResult(content, user_profile_raw, eligibilityList).eligibilityList
    /\ similar = Search(collection, new_eligibilityList)
    /\ StreamIdle
    /\ frames = <<>>

StreamNext ==
    \/ StartStream
    \/ StartStreamFails
    \/ ReadChunk
    \/ EmitChar
    \/ MessageDone
    \/ StreamEnd
    \/ StreamError
    \/ Finish

StreamSpec == StreamInit /\ [][StreamNext]_vars

(***************************************************************************)
(* Two requests at once.  search_and_recommend is a coroutine and          *)
(* get_response an asynchronous generator: every call has its own locals,  *)
(* and the event loop runs one of them at a time, switching at an await    *)
(* or a yield.  From `await request.json()` to the return of line 408 the  *)
(* handler has no await (the clients are synchronous), so it is one step.  *)
(***************************************************************************)
\* The locals of a request that has not run yet.
NewFrame ==
    [pc |-> "start", raised |-> "", ambiguous_count |-> 0,
     eligibilityList |-> JArr(<<>>), content |-> <<>>,
     stream |-> <<>>, fragments |-> <<>>, buffer |-> <<>>,
     first_line_sent |-> FALSE, pending |-> <<>>, output |-> <<>>,
     stream_error |-> FALSE]

\* LocalBuffer with one buffer for the whole module: that of the first
\* request.
BufferOfFirstRequest(r) == frames[1].buffer

\* Line 377: buffer is a local of the call of get_response.
LocalBuffer(r) == frames[r].buffer

\* get_response as a function of what it is given: the output for the
\* fragments read, fragment by fragment (lines 381-394).  sent is
\* first_line_sent.
RECURSIVE ReadAll(_, _, _)
ReadAll(fragments, buf, out) ==
    IF fragments = <<>> THEN [out |-> out, sent |-> FALSE]
    ELSE LET grown == buf \o Head(fragments)
             parsed == JsonLoads(grown)
         IN IF Head(fragments) = <<>> \/ ~parsed.ok \/ parsed.v.t # "obj"
            THEN ReadAll(Tail(fragments), grown, out)
            ELSE IF Iterable(Get(parsed.v, K_message, JStr(<<>>)))
            THEN [out |-> out \o ResponseUnits(parsed.v), sent |-> TRUE]
            ELSE ReadAll(Tail(fragments), grown, Append(out, HeaderLine(parsed.v)))

\* Lines 377-404: everything get_response yields for the fragments it read.
GetResponse(fragments, count) ==
    LET read == ReadAll(fragments, <<>>, <<>>) IN
    IF read.sent THEN read.out ELSE read.out \o FallbackUnits(count)

\* Lines 139-364 and 406-408 for request r: the body is read, the seed list
\* computed, the profile corrected (and corrected again for the print), the
\* catalog searched and the StreamingResponse returned.
HandleOf(r) ==
    /\ frames[r].pc = "start"
    /\ \E reply \in PairReplies, echo \in PairReplies :
         LET profile == PairProfile(r)
             seed == SeedEligibility(profile, today)
             first == UpdateProfileResult(reply, profile, seed.list)
             second == UpdateProfileResult(echo, profile, seed.list)
             failed == seed.raised # "" \/ first.raised # "" \/ second.raised # ""
         IN frames' = [frames EXCEPT ![r] =
                 [@ EXCEPT !.pc = IF failed THEN "raised" ELSE "respond",
                           !.ambiguous_count = PairAmbiguous(r),
                           !.content = reply,
                           !.eligibilityList = first.eligibilityList]]
    /\ UNCHANGED locals

\* Lines 367-378 for request r.
StartStreamOf(r) ==
    /\ frames[r].pc = "respond"
    /\ \E delivery \in PairStreams :
         frames' = [frames EXCEPT ![r] =
             [@ EXCEPT !.pc = "reading", !.stream = delivery, !.buffer = <<>>,
                       !.first_line_sent = FALSE]]
    /\ UNCHANGED locals

\* Line 367 for request r: the call raises.
StartStreamFailsOf(r) ==
    /\ frames[r].pc = "respond"
    /\ frames' = [frames EXCEPT ![r] = [@ EXCEPT !.pc = "raised", !.raised = "APIError"]]
    /\ UNCHANGED locals

\* Lines 381-387 and 393-394 for request r: one fragment.
ReadChunkOf(r) ==
    /\ frames[r].pc = "reading"
    /\ frames[r].stream # <<>>
    /\ LET fragment == Head(frames[r].stream)
           grown == LocalBuffer(r) \o fragment
           parsed == JsonLoads(grown)
           read == [frames[r] EXCEPT !.stream = Tail(@),
                                     !.fragments = Append(@, fragment),
                                     !.buffer = grown]
       IN IF fragment = <<>> \/ ~parsed.ok \/ parsed.v.t # "obj"
          THEN frames' = [frames EXCEPT ![r] = read]
          ELSE IF Iterable(Get(parsed.v, K_message, JStr(<<>>)))
          THEN frames' = [frames EXCEPT ![r] =
                   [read EXCEPT !.output = Append(@, Head(ResponseUnits(parsed.v))),
                                !.pending = Tail(ResponseUnits(parsed.v)),
                                !.pc = "emitting"]]
          ELSE frames' = [frames EXCEPT ![r] =
                   [read EXCEPT !.output = Append(@, Head(ResponseUnits(parsed.v)))]]
    /\ UNCHANGED locals

\* Lines 388-390 for request r: one unit of the message.
EmitCharOf(r) ==
    /\ frames[r].pc = "emitting"
    /\ frames[r].pending # <<>>
    /\ frames' = [frames EXCEPT ![r] =
           [@ EXCEPT !.output = Append(@, Head(frames[r].pending)),
                     !.pending = Tail(@)]]
    /\ UNCHANGED locals

\* Lines 391-392 for request r.
MessageDoneOf(r) ==
    /\ frames[r].pc = "emitting"
    /\ frames[r].pending = <<>>
    /\ frames' = [frames EXCEPT ![r] =
           [@ EXCEPT !.first_line_sent = TRUE, !.pc = "after_loop"]]
    /\ UNCHANGED locals

\* Line 381 for request r: its stream is exhausted.
StreamEndOf(r) ==
    /\ frames[r].pc = "reading"
    /\ frames[r].stream = <<>>
    /\ frames' = [frames EXCEPT ![r] = [@ EXCEPT !.pc = "after_loop"]]
    /\ UNCHANGED locals

\* Lines 395-396 for request r: reading its stream raises.
StreamErrorOf(r) ==
    /\ frames[r].pc = "reading"
    /\ frames' = [frames EXCEPT ![r] =
           [@ EXCEPT !.pc = "after_loop", !.stream_error = TRUE]]
    /\ UNCHANGED locals

\* Lines 398-404 for request r.
FinishOf(r) ==
    /\ frames[r].pc = "after_loop"
    /\ frames' = [frames EXCEPT ![r] =
           [@ EXCEPT !.pc = "done",
                     !.output = IF frames[r].first_line_sent THEN @
                                ELSE @ \o FallbackUnits(frames[r].ambiguous_count)]]
    /\ UNCHANGED locals

\* Two requests have arrived; neither has run.
PairInit ==
    /\ pc = "start"
    /\ raised = ""
    /\ response = "none"
    /\ calls = <<>>
    /\ query = JNull
    /\ user_profile_raw = JNull
    /\ ambiguous_count = 0
    /\ history = JArr(<<>>)
    /\ today \in Todays
    /\ eligibilityList = JArr(<<>>)
    /\ content = <<>>
    /\ new_user_profile = JNull
    /\ new_eligibilityList = JArr(<<>>)
    /\ similar = <<>>
    /\ StreamIdle
    /\ frames = [r \in Requests |-> NewFrame]

\* The event loop runs a step of either request.
PairNext ==
    \E r \in Requests :
        \/ HandleOf(r)
        \/ StartStreamOf(r)
        \/ StartStreamFailsOf(r)
        \/ ReadChunkOf(r)
        \/ EmitCharOf(r)
        \/ MessageDoneOf(r)
        \/ StreamEndOf(r)
        \/ StreamErrorOf(r)
        \/ FinishOf(r)

PairSpec == PairInit /\ [][PairNext]_vars

(***************************************************************************)
(* Properties.                                                             *)
(***************************************************************************)
HeaderIndexes == {i \in 1..Len(output) : output[i].u = "header"}
MessageIndexes == {i \in 1..Len(output) : output[i].u \in {"char", "value", "text"}}
FallbackHeader == HeaderUnit(FALSE, JArr(<<>>))

\* C1: whatever the fragments and whatever the buffer parses to, the response
\* of get_response holds the header line at most once.
C1_HeaderAtMostOnce == Cardinality(HeaderIndexes) <= 1

\* C2: no character of the message, and no fallback text, is yielded before a
\* header line has been yielded, wherever the payload is cut into fragments.
C2_NoMessageBeforeHeader ==
    \A i \in MessageIndexes : \E j \in HeaderIndexes : j < i

\* C2 witness: the payload with the escape sequence \n in its message was cut
\* between the backslash and the n, and its message has been yielded.
C2_CutInsideEscape ==
    /\ pc = "done"
    /\ buffer = PayloadRecommend
    /\ Len(chunk) > 0 /\ Len(chunk) < Len(buffer)
    /\ chunk[1] = "n"
    /\ buffer[Len(buffer) - Len(chunk)] = "\\"
    /\ \E i \in MessageIndexes : output[i] = CharUnit("\n")

\* C3: when the stream ends and the buffer has never parsed as a JSON object,
\* nothing was yielded while reading, the generator can always take its next
\* step, and it ends having yielded exactly the fallback header and one of the
\* two fallback texts.
C3_ExhaustedFallbackOnce ==
    /\ (~ever_parsed /\ pc \in {"reading", "after_loop"}) => output = <<>>
    /\ (pc = "reading" /\ stream = <<>>) => ENABLED StreamEnd
    /\ pc = "after_loop" => ENABLED Finish
    /\ (~ever_parsed /\ pc = "done") =>
          /\ Len(output) = 2
          /\ output[1] = FallbackHeader
          /\ output[2] \in {TextUnit(ESCALATE_TEXT), TextUnit(NOT_UNDERSTOOD_TEXT)}

\* C3 witness: a stream that delivered a JSON array, which parses but is no
\* object, has ended with the fallback.
C3_ArrayStreamEnded ==
    /\ pc = "done"
    /\ ~ever_parsed
    /\ buffer = PayloadArray
    /\ stream = <<>>
    /\ Len(output) = 2

\* C4: the fallback text is the escalation message for every ambiguousCount
\* >= 3 and the not-understood message for every ambiguousCount < 3.
C4_FallbackThreshold ==
    (pc = "done" /\ ~first_line_sent) =>
        output[Len(output)] =
            TextUnit(IF ambiguous_count >= 3 THEN ESCALATE_TEXT ELSE NOT_UNDERSTOOD_TEXT)

\* The planUrl of the plans in the candidate set of the request.
CandidateUrls ==
    {Plans[i].planUrl : i \in {j \in 1..NumPlans :
                                  \E k \in 1..Len(similar) : similar[k].planId = j}}

\* The link values of the items of a header.
HeaderLinks(unit) ==
    IF unit.item.t # "arr" THEN {}
    ELSE {Get(unit.item.e[i], K_link, JNull) :
            i \in {j \in 1..Len(unit.item.e) :
                     unit.item.e[j].t = "obj" /\ HasKey(unit.item.e[j], K_link)}}

\* C5: every link of the item list of a yielded header is the planUrl of a
\* plan of the candidate set retrieved for the request.
C5_LinksAreCandidates ==
    \A i \in HeaderIndexes :
        \A link \in HeaderLinks(output[i]) : link.t = "str" /\ link.s \in CandidateUrls

\* C6: every yielded header with status false carries an empty item list.
C6_StatusFalseEmptyItem ==
    \A i \in HeaderIndexes : ~output[i].status => output[i].item = JArr(<<>>)

\* C7: a request whose query or userProfile is missing is answered with the
\* JSONResponse "query and userProfile are required" and makes no call.
C7_MissingFieldsRejected ==
    (pc # "start" /\ (~Truthy(query) \/ ~Truthy(user_profile_raw))) =>
        /\ pc = "done"
        /\ raised = ""
        /\ response = "required"
        /\ calls = <<>>

\* C8: the eligibility list returned by update_profile_with_gpt, which filters
\* the catalog and goes into the prompt, always contains ALL.
C8_EligibilityContainsAll ==
    pc \in {"echo", "embed", "search", "respond", "reading"} =>
        /\ new_eligibilityList.t = "arr"
        /\ ALL \in StrElements(new_eligibilityList)

\* The reply of the profile-correction call is a terminal refusal
\* {status: false, item: [], message}.
RefusalReply ==
    LET parsed == Loads(content) IN
    /\ parsed.ok
    /\ parsed.v.t = "obj"
    /\ Get(parsed.v, K_status, JNull) = JFalse
    /\ Get(parsed.v, K_item, JNull) = JArr(<<>>)
    /\ HasKey(parsed.v, K_message)

ReplyNotAnObject ==
    LET parsed == Loads(content) IN ~parsed.ok \/ parsed.v.t # "obj"

\* C10: a reply that is malformed or is not a JSON object never aborts the
\* request; it goes on with the raw profile and the seed eligibility list.
C10_MalformedReplyFallsBack ==
    (calls # <<>> /\ ReplyNotAnObject /\ pc # "parse") =>
        /\ raised = ""
        /\ new_user_profile = user_profile_raw
        /\ new_eligibilityList = eligibilityList

\* The calls of the streaming completion made so far.
StreamingCalls == {i \in 1..Len(calls) : calls[i] = "chat_stream"}

\* C11: the streaming call is made once and never again, and its failure,
\* when it is started or while its fragments are read, never leaves the
\* request by an exception: the generator ends having yielded the fallback
\* header and a fallback text.
C11_StreamFailureFallsBack ==
    /\ Cardinality(StreamingCalls) <= 1
    /\ StreamingCalls # {} => pc # "raised" /\ raised = ""
    /\ (pc = "done" /\ stream_error /\ ~ever_parsed) =>
          /\ Len(output) = 2
          /\ output[1] = FallbackHeader
          /\ output[2] \in {TextUnit(ESCALATE_TEXT), TextUnit(NOT_UNDERSTOOD_TEXT)}

\* C12: an exception raised by the iteration of the stream before the buffer
\* has parsed as an object is caught; the generator goes on from the state
\* in which the end of the stream would have left it (nothing yielded,
\* first_line_sent False) and ends having yielded what an exhausted stream
\* yields: one fallback header and the fallback text for ambiguous_count.
C12_StreamErrorIsExhaustion ==
    /\ stream_error => raised = "" /\ pc \in {"after_loop", "done"}
    /\ (stream_error /\ ~ever_parsed /\ pc = "after_loop") =>
          /\ output = <<>>
          /\ ~first_line_sent
          /\ ENABLED Finish
    /\ (stream_error /\ ~ever_parsed /\ pc = "done") =>
          /\ output = FallbackUnits(ambiguous_count)
          /\ Len(output) = 2
          /\ output[1] = FallbackHeader
          /\ output[2].u = "text"

\* C12 witness: the stream raised after a fragment had been read and before
\* the rest was delivered, and the generator has ended.
C12_ErrorMidStream ==
    /\ pc = "done"
    /\ stream_error
    /\ ~ever_parsed
    /\ buffer # <<>>
    /\ stream # <<>>

\* The birthdate of the request, as year, month and day.
Born == ParseDate(Get(user_profile_raw, K_birthdate, JNull).s)

\* Age in whole years: today.year - birth.year, minus 1 when today's
\* (month, day) comes before the birthday's.
WholeYears ==
    today.year - Born.year
    - (IF today.month * 100 + today.day < Born.month * 100 + Born.day THEN 1 ELSE 0)

\* C13: for every birthdate, the seed eligibility list is ALL followed by
\* the one tag of the age in whole years: KID up to 12, BOY for 13..18, YOUTH
\* for 19..34, OLD from 65, and nothing else for 35..64.
C13_SeedBracketPerAge ==
    pc # "start" =>
        /\ Born.ok
        /\ raised = ""
        /\ eligibilityList =
              JArr(<<JStr(ALL)>> \o
                   (CASE WholeYears <= 12 -> <<JStr(KID)>>
                      [] WholeYears \in 13..18 -> <<JStr(BOY)>>
                      [] WholeYears \in 19..34 -> <<JStr(YOUTH)>>
                      [] WholeYears \in 35..64 -> <<>>
                      [] WholeYears >= 65 -> <<JStr(OLD)>>))

\* C13 witness: a client who turns 65 tomorrow is 64 and gets no bracket tag.
C13_TurnsSixtyFiveTomorrow ==
    /\ pc = "update"
    /\ Born.year = today.year - 65
    /\ Born.month = today.month
    /\ Born.day = today.day + 1
    /\ eligibilityList = JArr(<<JStr(ALL)>>)

\* The userProfile of the request has no birthdate, or one that is not a date.
BirthdateAbsentOrUnparseable ==
    /\ user_profile_raw.t = "obj"
    /\ LET birthday_str == Get(user_profile_raw, K_birthdate, JNull) IN
       \/ ~Truthy(birthday_str)
       \/ birthday_str.t = "str" /\ ~ParseDate(birthday_str.s).ok

\* C14: a request whose birthdate is absent or cannot be parsed as a date
\* raises nothing; its seed eligibility list is exactly ["ALL"] and, when
\* query and userProfile are given, it goes on to the profile correction.
C14_BadBirthdateIsDefault ==
    (pc # "start" /\ BirthdateAbsentOrUnparseable) =>
        /\ raised \notin {"ParserError", "AttributeError"}
        /\ eligibilityList = JArr(<<JStr(ALL)>>)
        /\ (Truthy(query) /\ Truthy(user_profile_raw) /\ calls = <<>>) => pc = "update"

\* The rank of a candidate in the collection (the position the similarity
\* search gives its point).
Rank(candidate) == CHOOSE i \in 1..Len(collection) : collection[i] = candidate

\* The points of the collection whose eligibility tag is in the corrected
\* eligibility list.
Eligible ==
    {i \in 1..Len(collection) :
        \E j \in 1..Len(new_eligibilityList.e) :
            /\ new_eligibilityList.e[j].t = "str"
            /\ new_eligibilityList.e[j].s = collection[i].eligibility}

\* C15: the candidate set handed to the prompt holds at most 10 records, each
\* a point of the collection whose eligibility tag is a member of the
\* corrected eligibility list, in the order of the similarity ranking; when
\* no point matches, the candidate set is empty and the streaming response
\* is returned all the same.
C15_CandidatesFilteredAndLimited ==
    pc \in {"respond", "reading"} =>
        /\ raised = ""
        /\ response = "streaming"
        /\ Len(similar) <= 10
        /\ \A i \in 1..Len(similar) :
              /\ \E j \in Eligible : collection[j] = similar[i]
              /\ \A k \in 1..Len(similar) : i < k => Rank(similar[i]) < Rank(similar[k])
        /\ Eligible = {} => similar = <<>>
        /\ Eligible # {} => similar # <<>>

\* C15 witness: more than 10 points match the corrected list, and the
\* candidate set holds 10 of them.
C15_MoreThanLimitMatch ==
    /\ pc = "respond"
    /\ Cardinality(Eligible) > 10
    /\ Len(similar) = 10

\* The calls of the non-streaming completion made so far.
CorrectionCalls == {i \in 1..Len(calls) : calls[i] = "chat"}

\* C17: a valid request makes exactly one non-streaming generative call for
\* the profile correction, before the embedding call and the catalog search.
C17_OneCorrectionCall ==
    /\ Cardinality(CorrectionCalls) <= 1
    /\ pc \in {"embed", "search", "respond"} => Cardinality(CorrectionCalls) = 1
    /\ \A i \in CorrectionCalls :
          \A j \in 1..Len(calls) : calls[j] \in {"embed", "search"} => i < j

\* The reply of the call of line 222 parsed as an object.
ReplyObject == Loads(content).v

\* C18: when the reply of the profile correction parses as an object that
\* lacks a field, the field falls back to the input: the raw profile for a
\* missing userProfile, the seed eligibility list for a missing
\* eligibilityList.
C18_MissingFieldFallsBackToInput ==
    (pc \in {"echo", "embed", "search", "respond"} /\ ~ReplyNotAnObject) =>
        /\ ~HasKey(ReplyObject, K_userProfile) => new_user_profile = user_profile_raw
        /\ ~HasKey(ReplyObject, K_eligibilityList) => new_eligibilityList = eligibilityList

\* The object the buffer parses to, and what get_response is to yield for it:
\* the header, then the characters of its message, one per unit.
ParsedBuffer == JsonLoads(buffer).v
ParsedMessage == Get(ParsedBuffer, K_message, JStr(<<>>))
HeaderThenCharacters(units) ==
    /\ ParsedMessage.t = "str"
    /\ Len(units) = 1 + Len(ParsedMessage.s)
    /\ units[1].u = "header"
    /\ \A i \in 1..Len(ParsedMessage.s) : units[i + 1] = CharUnit(ParsedMessage.s[i])

\* C16: once the buffer has parsed as a JSON object, get_response never
\* reads the stream again; it yields the header and then the characters of
\* the parsed message, one per unit and in order, and ends with exactly
\* these yielded and no fallback.
C16_FirstParseWins ==
    /\ ever_parsed => pc \in {"emitting", "after_loop", "done"}
    /\ (ever_parsed /\ pc = "emitting") => HeaderThenCharacters(output \o pending)
    /\ (ever_parsed /\ pc \in {"after_loop", "done"}) =>
          /\ first_line_sent
          /\ HeaderThenCharacters(output)

\* C20: the status of a yielded header is true exactly when its item is
\* non-empty; the header of a parsed object carries the item of that object
\* and its status does not follow the status field of the object: status
\* true with an empty item gives false, status false with an item gives true.
C20_StatusFromItemOnly ==
    /\ \A i \in HeaderIndexes : output[i].status = Truthy(output[i].item)
    /\ (ever_parsed /\ (pc = "emitting" \/ first_line_sent)) =>
          /\ output[1].u = "header"
          /\ output[1].item =
                (IF HasKey(ParsedBuffer, K_item)
                 THEN Get(ParsedBuffer, K_item, JNull) ELSE JArr(<<>>))
          /\ (buffer = PayloadStatusTrueNoItem) =>
                output[1].status = FALSE /\ Get(ParsedBuffer, K_status, JNull) = JTrue
          /\ (buffer = PayloadStatusFalseItem) =>
                /\ output[1].status = TRUE
                /\ Get(ParsedBuffer, K_status, JNull) = JFalse
                /\ output[1].item.t = "arr" /\ Len(output[1].item.e) = 1

\* C20 witness: the model wrote status false with one item; the response has
\* ended with a header of status true carrying that item.
C20_StatusFalseWithItem ==
    /\ pc = "done"
    /\ buffer = PayloadStatusFalseItem
    /\ output = <<HeaderUnit(TRUE, Get(ParsedBuffer, K_item, JNull))>>

\* The fragments read by a request, joined.
RECURSIVE Joined(_)
Joined(fragments) ==
    IF fragments = <<>> THEN <<>> ELSE Head(fragments) \o Joined(Tail(fragments))

\* What request r holds and has yielded is what its own body, its own
\* correction reply and its own fragments give.
OwnOutcome(r) ==
    LET f == frames[r]
        seed == SeedEligibility(PairProfile(r), today).list
    IN /\ f.pc # "start" =>
             /\ f.ambiguous_count = PairAmbiguous(r)
             /\ f.eligibilityList =
                   UpdateProfileResult(f.content, PairProfile(r), seed).eligibilityList
       /\ f.buffer = Joined(f.fragments)
       /\ f.pc \in {"reading", "emitting", "after_loop"} =>
             f.output \o f.pending = ReadAll(f.fragments, <<>>, <<>>).out
       /\ f.first_line_sent = (f.pc \in {"after_loop", "done"}
                                /\ ReadAll(f.fragments, <<>>, <<>>).sent)
       /\ f.pc = "done" => f.output = GetResponse(f.fragments, PairAmbiguous(r))

\* C19: in every interleaving of two requests, a step of one request leaves
\* the locals of the other as they were, and what each request holds
\* (ambiguous_count, eligibility list, buffer, first_line_sent) and yields
\* (header, item, characters, fallback text) is determined by its own body,
\* correction reply and fragments.
C19_RequestsDoNotInterfere ==
    /\ [](\A r \in Requests : OwnOutcome(r))
    /\ [][\E r \in Requests : \A o \in Requests \ {r} : frames'[o] = frames[o]]_vars

\* C19 witness: both requests are in the middle of yielding the characters
\* of their messages, after streams cut at different places.
C19_BothEmitting ==
    /\ \A r \in Requests :
          /\ frames[r].pc = "emitting"
          /\ Len(frames[r].output) = 2
          /\ Len(frames[r].pending) = 1
    /\ frames[1].fragments # frames[2].fragments
====
